---- MODULE Spec2Model ----
(***************************************************************************)
(* Model of src/pingan-clients/regulatory.js: the fixed-width formatter    *)
(* padString, the RegulatoryMessage value object (constructor, the three   *)
(* compose* builders and the lazily caching getters) and                   *)
(* RegulatoryClient.sendMessage with its pool and socket callbacks.        *)
(*                                                                         *)
(* JavaScript strings are sequences of one-character strings, Buffers are  *)
(* sequences of byte values, an Error is the sequence of the pieces of its *)
(* message (<<>> when nothing was thrown).                                 *)
(***************************************************************************)
EXTENDS Integers, Sequences, FiniteSets, TLC

VARIABLES
  input,      \* arguments of the constructor call under study
  clock,      \* what new Date() reads, in seconds after the base instant
  msg,        \* the RegulatoryMessage object: <<>> before/failed construction, <<fields>> after
  err,        \* the Error thrown by the last operation (<<>> if none)
  calls,      \* the compose* methods the constructor has run, in order
  ret,        \* the last getter call: which accessor and what it returned
  first,      \* per accessor, the value its first call returned (<<>> before any call)
  padArgs,    \* arguments of the padString call under study
  padRet,     \* <<>> before the call, <<result>> after
  sends,      \* number of sendMessage calls made so far
  pulls,      \* number of pool.pull calls made so far
  reqs        \* one record per pool.pull: the pending pull and its connection

vars == <<input, clock, msg, err, calls, ret, first, padArgs, padRet, sends, pulls, reqs>>

----------------------------------------------------------------------------
(* Bounds *)

MaxList  == 2   \* entries of paramsList.list
MaxClock == 1   \* seconds the clock may advance
MaxWidth == 4   \* widths tried for padString besides the program's 8, 10 and 20
MaxData  == 2   \* 'data' events delivered on one connection
MaxSends == 2   \* sendMessage calls

----------------------------------------------------------------------------
(* Strings, numbers and buffers *)

Digits == {"0", "1", "2", "3", "4", "5", "6", "7", "8", "9"}

DigitChar(d) ==
  CASE d = 0 -> "0" [] d = 1 -> "1" [] d = 2 -> "2" [] d = 3 -> "3" [] d = 4 -> "4"
    [] d = 5 -> "5" [] d = 6 -> "6" [] d = 7 -> "7" [] d = 8 -> "8" [] d = 9 -> "9"

\* Number.prototype.toString for a non-negative integer
RECURSIVE NumToString(_)
NumToString(n) ==
  IF n < 10 THEN <<DigitChar(n)>>
  ELSE NumToString(n \div 10) \o <<DigitChar(n % 10)>>

\* A JavaScript value handed to padString: a string or a number
JSStr(s) == [t |-> "string", s |-> s, n |-> 0]
JSNum(n) == [t |-> "number", s |-> <<>>, n |-> n]
toString(v) == IF v.t = "number" THEN NumToString(v.n) ELSE v.s

\* Array(n).join(sep): n empty slots joined, i.e. n-1 copies of sep
ArrayJoin(n, sep) == [i \in 1..(n - 1) |-> sep]

\* Concatenation of a sequence of sequences (by halves, to keep the depth low)
RECURSIVE Flatten(_)
Flatten(ss) ==
  IF Len(ss) = 0 THEN <<>>
  ELSE IF Len(ss) = 1 THEN ss[1]
  ELSE LET h == Len(ss) \div 2
       IN  Flatten(SubSeq(ss, 1, h)) \o Flatten(SubSeq(ss, h + 1, Len(ss)))

\* The character U+4E2D, one JavaScript string element (GBK D6 D0, UTF-8 E4 B8 AD)
CJK == "U+4E2D"

\* iconv.encode(string, 'gbk'): one byte per ASCII character, two per CJK one
GbkBytes(c) ==
  CASE c = CJK -> <<214, 208>>
    [] c = " " -> <<32>>
    [] c = "&" -> <<38>>
    [] c \in Digits -> <<48 + (CHOOSE d \in 0..9 : DigitChar(d) = c)>>
    [] c = "A" -> <<65>>
    [] c = "P" -> <<80>>
    [] c = "X" -> <<88>>
    [] c = "a" -> <<97>>
    [] c = "b" -> <<98>>
    [] c = "c" -> <<99>>

gbkEncode(string) == Flatten([i \in 1..Len(string) |-> GbkBytes(string[i])])

\* Buffer.from(string): UTF-8, three bytes for the CJK character
Utf8Bytes(c) == IF c = CJK THEN <<228, 184, 173>> ELSE GbkBytes(c)

BufferFrom(string) == Flatten([i \in 1..Len(string) |-> Utf8Bytes(string[i])])

----------------------------------------------------------------------------
(* padString *)

\* padString keeping the leading instead of the trailing characters
padStringLeading(string, width, spacer) ==
  LET sp  == IF spacer # <<>> THEN SubSeq(spacer, 1, 1) ELSE <<"0">>
      str == toString(string)
  IN  IF Len(str) = width THEN str
      ELSE IF Len(str) > width THEN SubSeq(str, 1, width)
      ELSE Flatten(ArrayJoin(width + 1 - Len(str), sp)) \o str

padString(string, width, spacer) ==
  LET sp  == IF spacer # <<>> THEN SubSeq(spacer, 1, 1) ELSE <<"0">>
      str == toString(string)
  IN  IF Len(str) = width THEN str
      ELSE IF Len(str) > width THEN SubSeq(str, Len(str) - width + 1, Len(str))
      ELSE Flatten(ArrayJoin(width + 1 - Len(str), sp)) \o str

----------------------------------------------------------------------------
(* Client configuration: RegulatoryClient's constructor with only the      *)
(* required keys given, so that every default applies                      *)

clientConfig ==
  [ marketId            |-> <<"8", "8", "8", "8">>,
    serviceType         |-> <<"0", "1">>,
    macAddress          |-> [i \in 1..16 |-> " "],
    dateTimeFormat      |-> "yyyyMMddHHmmss",
    defaultResponseCode |-> <<"9", "9", "9", "9", "9", "9">>,
    conFlag             |-> <<"0">>,
    countId             |-> <<"P", "A", "0", "0", "1">> ]

Pad2(n) == <<DigitChar((n \div 10) % 10), DigitChar(n % 10)>>

\* dateFormat(new Date(), 'yyyyMMddHHmmss') of the dateformat package, where
\* MM is the minute and mm the month; the base instant is 2016-01-01 00:00:00
dateFormat(now) ==
  <<"2", "0", "1", "6">> \o Pad2((now \div 60) % 60) \o <<"0", "1">>
    \o Pad2((now \div 3600) % 24) \o <<"0", "1">> \o Pad2(now % 60)

----------------------------------------------------------------------------
(* The schema table api.request of ./regulatory-description                *)

FC1 == <<"0", "0", "0", "1">>
FC2 == <<"0", "0", "0", "2">>
FC3 == <<"0", "0", "0", "3">>
FC9 == <<"9", "9", "9", "9">>

Scalar(k, req, def, ty, len) ==
  [ isArray |-> FALSE, key |-> k, required |-> req, default |-> def,
    type |-> ty, length |-> len, subs |-> <<>> ]

Group(ss) ==
  [ isArray |-> TRUE, key |-> "", required |-> FALSE, default |-> <<>>,
    type |-> "undefined", length |-> 0, subs |-> ss ]

amtField  == Scalar("amt",  TRUE,  <<>>,    "String",    2)
memoField == Scalar("memo", FALSE, <<"a">>, "undefined", 2)
codeField == Scalar("code", TRUE,  <<>>,    "String",    2)
noteField == Scalar("note", FALSE, <<>>,    "undefined", 2)

api_request ==
  (FC1 :> <<amtField, memoField>>)
    @@ (FC2 :> <<amtField, Group(<<codeField, noteField>>)>>)
    @@ (FC3 :> <<Group(<<codeField>>)>>)

hasOwnProperty(object, key) == key \in DOMAIN object

----------------------------------------------------------------------------
(* composeMessageBody *)

IsDigits(value) == Len(value) > 0 /\ \A i \in 1..Len(value) : value[i] \in Digits

MissingKeyError ==
  <<"[PINGAN] Missing key ", "${keyObject.key}", " for function ", "${self._functionCode}">>
IncorrectFormatError ==
  <<"[PINGAN] Incorrect key ", "${keyObject.key}", " format for ", "function ", "${self._functionCode}">>
OverflowError ==
  <<"[PINGAN] Key ", "${keyObject.key}", " overflow for function ", "${self._functionCode}">>
NotIterableError == <<"TypeError: ", "this._paramsList.list", " is not iterable">>
InvalidFunctionCodeError == <<"[PINGAN] Pingan Invalid Function Code">>

\* extract testing the length before the format
extractLengthFirst(keyObject, dataObject) ==
  IF keyObject.required /\ ~hasOwnProperty(dataObject, keyObject.key)
    THEN [err |-> MissingKeyError, val |-> <<>>]
  ELSE IF ~hasOwnProperty(dataObject, keyObject.key)
    THEN [err |-> <<>>, val |-> keyObject.default]
  ELSE LET value == dataObject[keyObject.key]
       IN  IF Len(value) > keyObject.length
             THEN [err |-> OverflowError, val |-> <<>>]
           ELSE IF keyObject.type = "String" /\ ~IsDigits(value)
             THEN [err |-> IncorrectFormatError, val |-> <<>>]
           ELSE [err |-> <<>>, val |-> value]

\* extract with the pattern /^\d*$/, which lets the empty string through
extractEmptyAllowed(keyObject, dataObject) ==
  IF keyObject.required /\ ~hasOwnProperty(dataObject, keyObject.key)
    THEN [err |-> MissingKeyError, val |-> <<>>]
  ELSE IF ~hasOwnProperty(dataObject, keyObject.key)
    THEN [err |-> <<>>, val |-> keyObject.default]
  ELSE LET value == dataObject[keyObject.key]
       IN  IF keyObject.type = "String" /\ value # <<>> /\ ~IsDigits(value)
             THEN [err |-> IncorrectFormatError, val |-> <<>>]
           ELSE IF Len(value) > keyObject.length
             THEN [err |-> OverflowError, val |-> <<>>]
           ELSE [err |-> <<>>, val |-> value]

extract(keyObject, dataObject) ==
  IF keyObject.required /\ ~hasOwnProperty(dataObject, keyObject.key)
    THEN [err |-> MissingKeyError, val |-> <<>>]
  ELSE IF ~hasOwnProperty(dataObject, keyObject.key)
    THEN [err |-> <<>>, val |-> keyObject.default]
  ELSE LET value == dataObject[keyObject.key]
       IN  IF keyObject.type = "String" /\ ~IsDigits(value)
             THEN [err |-> IncorrectFormatError, val |-> <<>>]
           ELSE IF Len(value) > keyObject.length
             THEN [err |-> OverflowError, val |-> <<>>]
           ELSE [err |-> <<>>, val |-> value]

\* the loops with the sub-descriptors outside and the list entries inside
LoopStepsSubKeyOuter(keyDictionary, paramsList) ==
  Flatten([i \in 1..Len(keyDictionary) |->
    LET key == keyDictionary[i]
    IN  IF key.isArray
          THEN IF paramsList.list = <<>>
                 THEN <<[iter |-> FALSE, keyObject |-> key, dataObject |-> paramsList.fields]>>
                 ELSE Flatten([k \in 1..Len(key.subs) |->
                        [j \in 1..Len(paramsList.list[1]) |->
                          [iter |-> TRUE, keyObject |-> key.subs[k],
                           dataObject |-> paramsList.list[1][j]]]])
          ELSE <<[iter |-> TRUE, keyObject |-> key, dataObject |-> paramsList.fields]>>])

\* The extract calls of the three nested loops, in the order the loops make
\* them; iterating an undefined paramsList.list is a step that throws
LoopSteps(keyDictionary, paramsList) ==
  Flatten([i \in 1..Len(keyDictionary) |->
    LET key == keyDictionary[i]
    IN  IF key.isArray
          THEN IF paramsList.list = <<>>
                 THEN <<[iter |-> FALSE, keyObject |-> key, dataObject |-> paramsList.fields]>>
                 ELSE Flatten([j \in 1..Len(paramsList.list[1]) |->
                        [k \in 1..Len(key.subs) |->
                          [iter |-> TRUE, keyObject |-> key.subs[k],
                           dataObject |-> paramsList.list[1][j]]]])
          ELSE <<[iter |-> TRUE, keyObject |-> key, dataObject |-> paramsList.fields]>>])

RECURSIVE RunLoop(_, _)
RunLoop(steps, messageBody) ==
  IF steps = <<>> THEN [err |-> <<>>, val |-> messageBody]
  ELSE IF ~Head(steps).iter THEN [err |-> NotIterableError, val |-> <<>>]
  ELSE LET r == extract(Head(steps).keyObject, Head(steps).dataObject)
       IN  IF r.err # <<>> THEN [err |-> r.err, val |-> <<>>]
           ELSE RunLoop(Tail(steps), messageBody \o r.val \o <<"&">>)

composeMessageBody(functionCode, paramsList) ==
  RunLoop(LoopSteps(api_request[functionCode], paramsList), <<>>)

----------------------------------------------------------------------------
(* RegulatoryMessage: getters and header builders.  A getter may assign a  *)
(* cache field, so each returns the object after the call (obj) and the    *)
(* value returned (val).  A field never assigned is <<>>, which is also    *)
(* the empty string; _messageBodyBuffer holds <<>> or <<buffer>>.          *)

StoreMessageBody(this, r) ==
  [obj |-> [this EXCEPT !._messageBody = r.val], val |-> r.val]

get_messageBody(this) ==
  IF this._messageBody = <<>>
    THEN StoreMessageBody(this, composeMessageBody(this._functionCode, this._paramsList))
    ELSE [obj |-> this, val |-> this._messageBody]

StoreMessageBodyBuffer(b) ==
  [obj |-> [b.obj EXCEPT !._messageBodyBuffer = <<gbkEncode(b.val)>>],
   val |-> gbkEncode(b.val)]

get_messageBodyBuffer(this) ==
  IF this._messageBodyBuffer = <<>>
    THEN StoreMessageBodyBuffer(get_messageBody(this))
    ELSE [obj |-> this, val |-> this._messageBodyBuffer[1]]

\* the message head, given what the read of this.messageBodyBuffer gave (b)
MessageHead(this, now, b, length) ==
  [obj |-> b.obj,
   val |-> this._functionCode
             \o this._clientConfig.serviceType
             \o this._clientConfig.macAddress
             \o dateFormat(now)
             \o this._clientConfig.defaultResponseCode
             \o Flatten(ArrayJoin(43, <<" ">>))
             \o this._clientConfig.conFlag
             \o padString(JSNum(length), 8, <<"0">>)
             \o this._clientConfig.countId
             \o this._clientLogId
             \o this._clientConfig.marketId]

MessageHeadByteLength(this, now, b) == MessageHead(this, now, b, Len(b.val))

\* the length of the body string in place of that of its bytes
MessageHeadCharLength(this, now, b) == MessageHead(this, now, b, Len(b.obj._messageBody))

\* composeMessageHead taking the length of the body string, not of its bytes
composeMessageHeadCharLength(this, now) ==
  MessageHeadCharLength(this, now, get_messageBodyBuffer(this))

composeMessageHead(this, now) ==
  MessageHeadByteLength(this, now, get_messageBodyBuffer(this))

\* the network head, given what the read of this.messageBodyBuffer gave (b)
NetworkHead(this, now, b) ==
  [obj |-> b.obj,
   val |-> <<"A", "0", "0", "1", "1", "3", "0", "1", "0", "1">>
             \o this._clientConfig.marketId
             \o [i \in 1..16 |-> " "]
             \o padString(JSNum(Len(b.val)), 10, <<"0">>)
             \o <<"0", "0", "0", "0", "0", "0">>
             \o this._clientConfig.countId
             \o this._clientConfig.serviceType
             \o dateFormat(now)
             \o this._clientLogId
             \o this._clientConfig.defaultResponseCode
             \o Flatten(ArrayJoin(101, <<" ">>))
             \o this._clientConfig.conFlag
             \o <<"0", "0", "0">>
             \o <<"0">>
             \o <<"0">>
             \o Flatten(ArrayJoin(13, <<" ">>))
             \o Flatten(ArrayJoin(12, <<"0">>))]

composeNetworkHead(this, now) == NetworkHead(this, now, get_messageBodyBuffer(this))

StoreMessageHead(h) ==
  [obj |-> [h.obj EXCEPT !._messageHead = h.val], val |-> h.val]

get_messageHead(this, now) ==
  IF this._messageHead # <<>>
    THEN StoreMessageHead(composeMessageHead(this, now))
    ELSE [obj |-> this, val |-> this._messageHead]

StoreNetworkHead(h) ==
  [obj |-> [h.obj EXCEPT !._networkHead = h.val], val |-> h.val]

get_networkHead(this, now) ==
  IF this._networkHead # <<>>
    THEN StoreNetworkHead(composeNetworkHead(this, now))
    ELSE [obj |-> this, val |-> this._networkHead]

\* the buffer getter, one read after the other: n is what this.networkHead
\* gave, m what this.messageHead gave, b what this.messageBodyBuffer gave
BufferConcat(n, m, b) ==
  [obj |-> b.obj, val |-> BufferFrom(n.val) \o BufferFrom(m.val) \o b.val]

BufferAfterMessageHead(n, m) == BufferConcat(n, m, get_messageBodyBuffer(m.obj))

BufferAfterNetworkHead(n, now) == BufferAfterMessageHead(n, get_messageHead(n.obj, now))

get_buffer(this, now) == BufferAfterNetworkHead(get_networkHead(this, now), now)

----------------------------------------------------------------------------
(* new RegulatoryMessage(clientConfig, clientLogId, functionCode,          *)
(* paramsList): err is the Error thrown (<<>> if none), obj the object     *)
(* (<<>> when the constructor threw), ran the compose* methods it entered  *)

NewObject(config, clientLogId, functionCode, paramsList) ==
  [ _clientConfig      |-> config,
    _clientLogId       |-> padString(clientLogId, 20, <<"0">>),
    _functionCode      |-> functionCode,
    _paramsList        |-> paramsList,
    _messageBody       |-> <<>>,
    _messageBodyBuffer |-> <<>>,
    _messageHead       |-> <<>>,
    _networkHead       |-> <<>> ]

\* this._networkHead = this.composeNetworkHead()
AssignNetworkHead(net) ==
  [err |-> <<>>, obj |-> <<[net.obj EXCEPT !._networkHead = net.val]>>,
   ran |-> <<"composeMessageBody", "composeMessageHead", "composeNetworkHead">>]

\* this._messageHead = this.composeMessageHead(), and on
AssignMessageHead(head, now) ==
  AssignNetworkHead(composeNetworkHead([head.obj EXCEPT !._messageHead = head.val], now))

\* this._messageBody = this.composeMessageBody(), and on, unless it threw
AssignMessageBody(this, body, now) ==
  IF body.err # <<>>
    THEN [err |-> body.err, obj |-> <<>>, ran |-> <<"composeMessageBody">>]
    ELSE AssignMessageHead(composeMessageHead([this EXCEPT !._messageBody = body.val], now),
                           now)

\* the constructor looking the function code up only after building the body:
\* for an unknown code composeMessageBody is entered and iterating the
\* undefined schema throws
RegulatoryMessageLateCheck(config, clientLogId, functionCode, paramsList, now) ==
  IF ~hasOwnProperty(api_request, functionCode)
    THEN [err |-> <<"TypeError: ", "keyDictionary", " is not iterable">>,
          obj |-> <<>>, ran |-> <<"composeMessageBody">>]
    ELSE AssignMessageBody(NewObject(config, clientLogId, functionCode, paramsList),
                           composeMessageBody(functionCode, paramsList), now)

RegulatoryMessage(config, clientLogId, functionCode, paramsList, now) ==
  IF ~hasOwnProperty(api_request, functionCode)
    THEN [err |-> InvalidFunctionCodeError, obj |-> <<>>, ran |-> <<>>]
    ELSE AssignMessageBody(NewObject(config, clientLogId, functionCode, paramsList),
                           composeMessageBody(functionCode, paramsList), now)

----------------------------------------------------------------------------
(* Inputs *)

SeqUpTo(S, n) == UNION {[1..k -> S] : k \in 0..n}

\* Objects whose own keys are among keys, with values among vals
Objects(keys, vals) == UNION {[K -> vals] : K \in SUBSET keys}

Values ==
  { <<>>, <<"7">>, <<"1", "2">>, <<"1", "2", "3">>, <<"a", "&">>, <<CJK>>,
    <<"a", "b", "c">> }

EntryValues == { <<"7">>, <<"1", "2">>, <<"a", "b", "c">> }

ScalarKeys(keyDictionary) ==
  {keyDictionary[i].key : i \in {j \in 1..Len(keyDictionary) : ~keyDictionary[j].isArray}}

GroupKeys(keyDictionary) ==
  UNION {{keyDictionary[i].subs[k].key : k \in 1..Len(keyDictionary[i].subs)} :
           i \in {j \in 1..Len(keyDictionary) : keyDictionary[j].isArray}}

\* Parameter sets for a schema: only the keys the schema reads; list is
\* <<>> when the member is absent and <<entries>> when present
ParamsFor(keyDictionary) ==
  { [fields |-> f, list |-> l] :
      f \in Objects(ScalarKeys(keyDictionary), Values),
      l \in IF GroupKeys(keyDictionary) = {} THEN {<<>>}
            ELSE {<<>>} \cup
                 {<<e>> : e \in SeqUpTo(Objects(GroupKeys(keyDictionary), EntryValues), MaxList)} }

LogIds ==
  { JSStr(<<"4", "2">>), JSNum(7),
    JSStr([i \in 1..25 |-> IF i <= 5 THEN "a" ELSE "X"]),
    JSStr(<<CJK, "1">>) }

Call(id, fc, pl) == [clientLogId |-> id, functionCode |-> fc, paramsList |-> pl]

\* for the schema with a repeating group, the scalar field is absent or valid
InputsBuild ==
  { Call(JSStr(<<"4", "2">>), FC1, pl) : pl \in ParamsFor(api_request[FC1]) }
    \cup { Call(JSNum(7), FC2, pl) :
             pl \in {q \in ParamsFor(api_request[FC2]) :
                       \A k \in DOMAIN q.fields : q.fields[k] = <<"7">>} }
    \cup { Call(JSStr(<<"4", "2">>), FC3, pl) : pl \in ParamsFor(api_request[FC3]) }
    \cup { Call(id, FC9, pl) : id \in LogIds, pl \in ParamsFor(api_request[FC1]) }

P(f, l) == [fields |-> f, list |-> l]

InputsMsg ==
  { Call(JSStr(<<CJK, "1">>), FC1,
         P([k \in {"amt", "memo"} |-> IF k = "amt" THEN <<"1", "2">> ELSE <<CJK>>], <<>>)),
    Call(JSNum(7), FC2,
         P([k \in {"amt"} |-> <<"7">>],
           <<<< [k \in {"code", "note"} |-> IF k = "code" THEN <<"7">> ELSE <<CJK>>],
                [k \in {"code"} |-> <<"7">>] >>>>)),
    Call(JSStr(<<"4", "2">>), FC3, P([k \in {} |-> <<>>], << <<>> >>)),
    Call(JSStr(<<"4", "2">>), FC9, P([k \in {"amt"} |-> <<"7">>], <<>>)) }

PadValues ==
  { JSStr(<<>>), JSStr(<<"a", "b", "c">>), JSStr(<<"1", "2", "3", "4", "5">>),
    JSStr(<<CJK, "1">>), JSNum(0), JSNum(12345), JSNum(123456789) }

PadWidths == 0..MaxWidth \cup {8, 10, 20}

PadSpacers == { <<>>, <<"0">>, <<" ">>, <<"X", "a">> }

PadInputs ==
  { [string |-> v, width |-> w, spacer |-> sp] :
      v \in PadValues, w \in PadWidths, sp \in PadSpacers }

Accessors == {"messageBody", "messageBodyBuffer", "messageHead", "networkHead", "buffer"}

NoRet == [acc |-> "none", val |-> <<>>]

----------------------------------------------------------------------------
(* Initial states *)

InitRest ==
  /\ clock = 0
  /\ msg = <<>>
  /\ err = <<>>
  /\ calls = <<>>
  /\ ret = NoRet
  /\ first = [a \in Accessors |-> <<>>]
  /\ padRet = <<>>
  /\ sends = 0
  /\ pulls = 0
  /\ reqs = <<>>

Init ==
  /\ input \in InputsMsg
  /\ padArgs = [string |-> JSStr(<<>>), width |-> 0, spacer |-> <<>>]
  /\ InitRest

InitBuild ==
  /\ input \in InputsBuild
  /\ padArgs = [string |-> JSStr(<<>>), width |-> 0, spacer |-> <<>>]
  /\ InitRest

InitPad ==
  /\ input \in {Call(id, FC1, P([k \in {"amt"} |-> <<"7">>], <<>>)) : id \in LogIds}
  /\ padArgs \in PadInputs
  /\ InitRest

----------------------------------------------------------------------------
(* Actions *)

\* new RegulatoryMessage(...) on the arguments in input
Constructs(r) ==
  /\ msg' = r.obj
  /\ err' = r.err
  /\ calls' = r.ran

Construct ==
  /\ msg = <<>> /\ err = <<>>
  /\ Constructs(RegulatoryMessage(clientConfig, input.clientLogId, input.functionCode,
                                  input.paramsList, clock))
  /\ UNCHANGED <<input, clock, ret, first, padArgs, padRet, sends, pulls, reqs>>

Returned(acc, r) ==
  /\ msg' = <<r.obj>>
  /\ ret' = [acc |-> acc, val |-> r.val]
  /\ first' = IF first[acc] = <<>> THEN [first EXCEPT ![acc] = <<r.val>>] ELSE first
  /\ UNCHANGED <<input, clock, err, calls, padArgs, padRet, sends, pulls, reqs>>

GetMessageBody ==
  /\ msg # <<>>
  /\ Returned("messageBody", get_messageBody(msg[1]))

GetMessageBodyBuffer ==
  /\ msg # <<>>
  /\ Returned("messageBodyBuffer", get_messageBodyBuffer(msg[1]))

GetMessageHead ==
  /\ msg # <<>>
  /\ Returned("messageHead", get_messageHead(msg[1], clock))

GetNetworkHead ==
  /\ msg # <<>>
  /\ Returned("networkHead", get_networkHead(msg[1], clock))

GetBuffer ==
  /\ msg # <<>>
  /\ Returned("buffer", get_buffer(msg[1], clock))

\* one second passes
Tick ==
  /\ clock < MaxClock
  /\ clock' = clock + 1
  /\ UNCHANGED <<input, msg, err, calls, ret, first, padArgs, padRet, sends, pulls, reqs>>

PadCall ==
  /\ padRet = <<>>
  /\ padRet' = <<padString(padArgs.string, padArgs.width, padArgs.spacer)>>
  /\ UNCHANGED <<input, clock, msg, err, calls, ret, first, padArgs, sends, pulls, reqs>>

Next ==
  \/ Construct
  \/ GetMessageBody
  \/ GetMessageBodyBuffer
  \/ GetMessageHead
  \/ GetNetworkHead
  \/ GetBuffer
  \/ Tick

Spec == Init /\ [][Next]_vars

NextBuild == Construct

SpecBuild == InitBuild /\ [][NextBuild]_vars

NextPad ==
  \/ PadCall
  \/ Construct

SpecPad == InitPad /\ [][NextPad]_vars

----------------------------------------------------------------------------
(* RegulatoryClient.sendMessage and the callbacks it registers.  A request *)
(* is one pool.pull: state is "pulling" until the pool calls back, then    *)
(* "failed" (err) or "open" (a connection); written holds the bytes handed *)
(* to connection.write, cb the invocations of the caller's callback in     *)
(* order, ended whether connection.end() was called, closed whether the    *)
(* peer's 'end' event was delivered (after which no 'data' follows).       *)

InputsClient ==
  { Call(JSStr(<<"4", "2">>), FC1, P([k \in {"amt"} |-> <<"7">>], <<>>)),
    Call(JSStr(<<"4", "2">>), FC9, P([k \in {"amt"} |-> <<"7">>], <<>>)),
    Call(JSStr(<<"4", "2">>), FC1, P([k \in {} |-> <<>>], <<>>)),
    Call(JSStr(<<"4", "2">>), FC1, P([k \in {"amt"} |-> <<"a", "b", "c">>], <<>>)) }

Payloads == {"r1", "r2"}

NewRequest(message) ==
  [ state |-> "pulling", message |-> message, written |-> <<>>, cb |-> <<>>,
    ended |-> FALSE, closed |-> FALSE ]

\* pool.pull called whether or not the message was built
PullsFirst(in, message) ==
  /\ sends' = sends + 1
  /\ input' = in
  /\ err' = message.err
  /\ pulls' = pulls + 1
  /\ reqs' = Append(reqs, NewRequest(IF message.err # <<>>
                                       THEN NewObject(clientConfig, in.clientLogId,
                                                      in.functionCode, in.paramsList)
                                       ELSE message.obj[1]))
  /\ UNCHANGED <<clock, msg, calls, ret, first, padArgs, padRet>>

\* sendMessage pulling from the pool before it builds the message
sendMessagePullFirst(in) ==
  PullsFirst(in, RegulatoryMessage(clientConfig, in.clientLogId, in.functionCode,
                                   in.paramsList, clock))

\* what follows the construction: nothing when it threw, else pool.pull
PullsIfBuilt(in, message) ==
  /\ sends' = sends + 1
  /\ input' = in
  /\ err' = message.err
  /\ IF message.err # <<>>
       THEN UNCHANGED <<pulls, reqs>>
       ELSE /\ pulls' = pulls + 1
            /\ reqs' = Append(reqs, NewRequest(message.obj[1]))
  /\ UNCHANGED <<clock, msg, calls, ret, first, padArgs, padRet>>

sendMessage(in) ==
  PullsIfBuilt(in, RegulatoryMessage(clientConfig, in.clientLogId, in.functionCode,
                                     in.paramsList, clock))

SendMessage ==
  /\ sends < MaxSends
  /\ \E in \in InputsClient : sendMessage(in)

\* the pool calls back with err
PullError ==
  \E i \in 1..Len(reqs) :
    /\ reqs[i].state = "pulling"
    /\ reqs' = [reqs EXCEPT ![i].state = "failed",
                            ![i].cb = Append(@, [err |-> TRUE, data |-> "null"])]
    /\ UNCHANGED <<input, clock, msg, err, calls, ret, first, padArgs, padRet, sends, pulls>>

\* connection.write(message.buffer), b being what the read of message.buffer gave
Writes(i, b) ==
  reqs' = [reqs EXCEPT ![i].state = "open", ![i].message = b.obj, ![i].written = <<b.val>>]

\* the pool calls back with a connection
PullConnection ==
  \E i \in 1..Len(reqs) :
    /\ reqs[i].state = "pulling"
    /\ Writes(i, get_buffer(reqs[i].message, clock))
    /\ UNCHANGED <<input, clock, msg, err, calls, ret, first, padArgs, padRet, sends, pulls>>

\* the connection's 'data' listener
OnData ==
  \E i \in 1..Len(reqs), data \in Payloads :
    /\ reqs[i].state = "open"
    /\ ~reqs[i].closed
    /\ Len(reqs[i].cb) < MaxData
    /\ reqs' = [reqs EXCEPT ![i].cb = Append(@, [err |-> FALSE, data |-> data]),
                            ![i].ended = TRUE]
    /\ UNCHANGED <<input, clock, msg, err, calls, ret, first, padArgs, padRet, sends, pulls>>

\* the connection's 'end' listener
OnEnd ==
  \E i \in 1..Len(reqs) :
    /\ reqs[i].state = "open"
    /\ ~reqs[i].closed
    /\ reqs' = [reqs EXCEPT ![i].closed = TRUE]
    /\ UNCHANGED <<input, clock, msg, err, calls, ret, first, padArgs, padRet, sends, pulls>>

InitClient ==
  /\ input \in InputsClient
  /\ padArgs = [string |-> JSStr(<<>>), width |-> 0, spacer |-> <<>>]
  /\ InitRest

NextClient ==
  \/ SendMessage
  \/ PullError
  \/ PullConnection
  \/ OnData
  \/ OnEnd

SpecClient == InitClient /\ [][NextClient]_vars

----------------------------------------------------------------------------
(* Vocabulary of the properties *)

Range(f) == {f[i] : i \in DOMAIN f}

\* the constructor call on input has returned or thrown
Constructed == msg # <<>> \/ err # <<>>

KnownCode == input.functionCode \in DOMAIN api_request

FCName(fc) ==
  CASE fc = FC1 -> "0001" [] fc = FC2 -> "0002" [] fc = FC3 -> "0003" [] fc = FC9 -> "9999"

\* the extract calls the loops make on input, in order
Steps == LoopSteps(api_request[input.functionCode], input.paramsList)

Present(step) == step.iter /\ step.keyObject.key \in DOMAIN step.dataObject
Given(step)   == step.dataObject[step.keyObject.key]

MissingRequired(step) == step.iter /\ step.keyObject.required /\ ~Present(step)
Overlong(step)        == Present(step) /\ Len(Given(step)) > step.keyObject.length
DigitsOnlyType(step)  == step.keyObject.type = "String"
AllDigits(value)      == value # <<>> /\ Range(value) \subseteq Digits
BadFormat(step)       == Present(step) /\ DigitsOnlyType(step) /\ ~AllDigits(Given(step))

Defective(step) ==
  ~step.iter \/ MissingRequired(step) \/ Overlong(step) \/ BadFormat(step)

\* among the extract calls steps, the first that cannot be serialized is the i-th
FirstDefect(steps, i) ==
  /\ i \in 1..Len(steps)
  /\ Defective(steps[i])
  /\ \A j \in 1..(i - 1) : ~Defective(steps[j])

----------------------------------------------------------------------------
(* C1 *)

\* C1: a sendMessage call whose RegulatoryMessage fails to assemble pulls no
\* connection from the pool and leaves every request and connection (and the
\* bytes written to it) as it was
C1_FailedAssemblyHandsNothing ==
  [][(sends' = sends + 1 /\ err' # <<>>) => (pulls' = pulls /\ reqs' = reqs)]_vars

\* a call failed after an earlier one went through: the pool saw one pull only
C1_Witness ==
  /\ sends = 2
  /\ err # <<>>
  /\ pulls = 1
  /\ Len(reqs) = 1

----------------------------------------------------------------------------
(* C2 *)

\* C2: for a function code without an entry in the schema table the constructor
\* throws the invalid-function-code error before any compose* method has run,
\* and no message object (body, headers, buffer) results
C2_UnknownFunctionCode ==
  (Constructed /\ ~KnownCode) =>
    /\ err = InvalidFunctionCodeError
    /\ calls = <<>>
    /\ msg = <<>>

C2_Witness ==
  /\ input.functionCode = FC9
  /\ err = InvalidFunctionCodeError
  /\ calls = <<>>

----------------------------------------------------------------------------
(* C3 *)

MissingNamed(steps) ==
  \A i \in 1..Len(steps) :
    (FirstDefect(steps, i) /\ MissingRequired(steps[i])) =>
      /\ err # <<>>
      /\ err[1] = "[PINGAN] Missing key "
      /\ steps[i].keyObject.key \in Range(err)
      /\ FCName(input.functionCode) \in Range(err)

\* C3: when the field that stops the assembly is a required key that is absent
\* (from paramsList, or from an entry of paramsList.list), the error thrown is
\* the missing-key error and its message names that key and the function code
C3_MissingRequiredNamesKey ==
  (Constructed /\ KnownCode) => MissingNamed(Steps)

----------------------------------------------------------------------------
(* C4 *)

OverlongOverflows(steps) ==
  \A i \in 1..Len(steps) :
    (FirstDefect(steps, i) /\ Overlong(steps[i])) => err = OverflowError

\* C4 as stated: when the field that stops the assembly holds a value longer
\* than its declared length, the error is the overflow error, whatever the
\* field's type and the value's content
C4_OverlongAlwaysOverflow ==
  (Constructed /\ KnownCode) => OverlongOverflows(Steps)

OverlongFails(steps) ==
  \A i \in 1..Len(steps) :
    /\ Overlong(steps[i]) => (err # <<>> /\ msg = <<>>)
    /\ (FirstDefect(steps, i) /\ Overlong(steps[i])) =>
         err = IF DigitsOnlyType(steps[i]) /\ ~AllDigits(Given(steps[i]))
                 THEN IncorrectFormatError
                 ELSE OverflowError

\* C4 amended: a value longer than its declared length always fails the
\* assembly and is never serialized; the error raised for it is the overflow
\* error when the field is not of the digits-only type or the value is all
\* digits, and the incorrect-format error otherwise
C4_OverlongRejected ==
  (Constructed /\ KnownCode) => OverlongFails(Steps)

OverlongNonDigitsFirst(steps) ==
  \E i \in 1..Len(steps) :
    FirstDefect(steps, i) /\ Overlong(steps[i]) /\ BadFormat(steps[i])

\* an overlong value of a digits-only field that is not all digits
C4_Witness ==
  /\ KnownCode
  /\ Constructed
  /\ OverlongNonDigitsFirst(Steps)
  /\ err = IncorrectFormatError

----------------------------------------------------------------------------
(* C5 *)

\* what the i-th of the extract calls steps contributes to the body
Contribution(steps, i) ==
  IF Present(steps[i]) THEN Given(steps[i]) ELSE steps[i].keyObject.default

\* offset in the body of the token of step i when every step is serialized
RECURSIVE TokenOffset(_, _)
TokenOffset(steps, i) ==
  IF i = 1 THEN 0
  ELSE TokenOffset(steps, i - 1) + Len(Contribution(steps, i - 1)) + 1

DigitsOnlyChecked(steps) ==
  \A i \in 1..Len(steps) :
    /\ BadFormat(steps[i]) => (err # <<>> /\ msg = <<>>)
    /\ (FirstDefect(steps, i) /\ BadFormat(steps[i])) => err = IncorrectFormatError
    /\ (msg # <<>> /\ Present(steps[i]) /\ DigitsOnlyType(steps[i])) =>
         /\ AllDigits(Given(steps[i]))
         /\ Len(Given(steps[i])) <= steps[i].keyObject.length
         /\ SubSeq(msg[1]._messageBody, TokenOffset(steps, i) + 1,
                   TokenOffset(steps, i) + Len(Given(steps[i])) + 1)
              = Given(steps[i]) \o <<"&">>

\* C5: a digits-only field whose key is present with a value that is not a
\* non-empty all-digits string fails the assembly, with the incorrect-format
\* error when it is the field that stops it; and in an assembled body a present
\* all-digits value within the declared length stands unchanged, followed by &
C5_DigitsOnlyField ==
  (Constructed /\ KnownCode) => DigitsOnlyChecked(Steps)

EmptyStringFirst(steps) ==
  \E i \in 1..Len(steps) :
    FirstDefect(steps, i) /\ Present(steps[i]) /\ Given(steps[i]) = <<>>

\* the empty string given for a digits-only field
C5_Witness ==
  /\ KnownCode
  /\ err = IncorrectFormatError
  /\ EmptyStringFirst(Steps)

----------------------------------------------------------------------------
(* C6 *)

\* the value a descriptor contributes for a data object, followed by &
Token(keyObject, dataObject) ==
  (IF keyObject.key \in DOMAIN dataObject THEN dataObject[keyObject.key]
   ELSE keyObject.default) \o <<"&">>

\* the tokens of the body, in schema order; a repeating group contributes one
\* token per (entry of paramsList.list in order, sub-descriptor in order)
ExpectedTokens ==
  LET dict == api_request[input.functionCode]
      list == input.paramsList.list[1]
  IN  Flatten([i \in 1..Len(dict) |->
        IF dict[i].isArray
          THEN [n \in 1..(Len(list) * Len(dict[i].subs)) |->
                  Token(dict[i].subs[((n - 1) % Len(dict[i].subs)) + 1],
                        list[((n - 1) \div Len(dict[i].subs)) + 1])]
          ELSE <<Token(dict[i], input.paramsList.fields)>>])

RECURSIVE SumOver(_, _)
SumOver(f, n) == IF n = 0 THEN 0 ELSE f[n] + SumOver(f, n - 1)

\* scalars + (list entries x group sub-descriptors)
ExpectedCount ==
  LET dict == api_request[input.functionCode]
  IN  SumOver([i \in 1..Len(dict) |->
                 IF dict[i].isArray
                   THEN Len(input.paramsList.list[1]) * Len(dict[i].subs)
                   ELSE 1], Len(dict))

AmpCount(string) == Cardinality({i \in 1..Len(string) : string[i] = "&"})

\* C6 as stated: an assembled body is the concatenation of the tokens, their
\* number is scalars + entries x sub-descriptors, and the body ends with &
C6_BodyEndsWithAmp ==
  msg # <<>> =>
    LET body == msg[1]._messageBody
    IN  /\ body = Flatten(ExpectedTokens)
        /\ Len(ExpectedTokens) = ExpectedCount
        /\ body # <<>>
        /\ body[Len(body)] = "&"

\* C6 amended: an assembled body is the concatenation of the tokens, their
\* number is scalars + entries x sub-descriptors (and is the number of & in
\* the body when no token's value contains one), and the body ends with &
\* when there is at least one token and is empty when there is none
C6_BodyIsTokens ==
  msg # <<>> =>
    LET body == msg[1]._messageBody
    IN  /\ body = Flatten(ExpectedTokens)
        /\ Len(ExpectedTokens) = ExpectedCount
        /\ (\A n \in 1..Len(ExpectedTokens) : AmpCount(ExpectedTokens[n]) = 1)
             => AmpCount(body) = ExpectedCount
        /\ ExpectedCount > 0 => body[Len(body)] = "&"
        /\ ExpectedCount = 0 => body = <<>>

\* a scalar and a two-entry list for a group of two sub-descriptors, the
\* second entry leaving the optional one out
C6_Witness ==
  /\ msg # <<>>
  /\ input.functionCode = FC2
  /\ input.paramsList.list # <<>>
  /\ Len(input.paramsList.list[1]) = 2
  /\ DOMAIN input.paramsList.list[1][1] = {"code", "note"}
  /\ DOMAIN input.paramsList.list[1][2] = {"code"}
  /\ input.paramsList.list[1][1]["code"] # input.paramsList.list[1][2]["code"]
  /\ AmpCount(msg[1]._messageBody) = 5

----------------------------------------------------------------------------
(* C7 *)

\* n written in w decimal digits: zero-filled on the left, high digits dropped
RECURSIVE Pow10(_)
Pow10(k) == IF k = 0 THEN 1 ELSE 10 * Pow10(k - 1)

Rendered(n, w) == [i \in 1..w |-> DigitChar((n \div Pow10(w - i)) % 10)]

\* the 8-digit length field of a message header: after the function code,
\* service type, MAC address, timestamp, response code, 42 spaces and flag
LengthOfMessageHead(head) == SubSeq(head, 4 + 2 + 16 + 14 + 6 + 42 + 1 + 1,
                                          4 + 2 + 16 + 14 + 6 + 42 + 1 + 8)

\* the 10-digit length field of a network header: after the 10-character tag,
\* the market id and 16 spaces
LengthOfNetworkHead(head) == SubSeq(head, 10 + 4 + 16 + 1, 10 + 4 + 16 + 10)

\* the length fields of the stored headers, of the last returned value and of
\* the bytes out that buffer emits, against the emitted body of n bytes, which
\* follows nhBytes bytes of network header and mhBytes of message header
LengthFieldsRender(out, nhBytes, mhBytes, n) ==
  /\ Len(out) = nhBytes + mhBytes + n
  /\ LengthOfMessageHead(msg[1]._messageHead) = Rendered(n, 8)
  /\ LengthOfNetworkHead(msg[1]._networkHead) = Rendered(n, 10)
  /\ SubSeq(out, 31, 40) = BufferFrom(Rendered(n, 10))
  /\ SubSeq(out, nhBytes + 86, nhBytes + 93) = BufferFrom(Rendered(n, 8))
  /\ SubSeq(out, nhBytes + mhBytes + 1, Len(out)) = gbkEncode(msg[1]._messageBody)
  /\ ret.acc = "messageHead" => LengthOfMessageHead(ret.val) = Rendered(n, 8)
  /\ ret.acc = "networkHead" => LengthOfNetworkHead(ret.val) = Rendered(n, 10)
  /\ ret.acc = "messageBodyBuffer" => Len(ret.val) = n
  /\ ret.acc = "buffer" =>
       /\ SubSeq(ret.val, 31, 40) = BufferFrom(Rendered(n, 10))
       /\ SubSeq(ret.val, Len(BufferFrom(msg[1]._networkHead)) + 86,
                          Len(BufferFrom(msg[1]._networkHead)) + 93)
            = BufferFrom(Rendered(n, 8))
       /\ Len(ret.val) = Len(BufferFrom(msg[1]._networkHead))
                           + Len(BufferFrom(msg[1]._messageHead)) + n

EmittedBy(b) ==
  LengthFieldsRender(b.val,
                     Len(BufferFrom(b.obj._networkHead)),
                     Len(BufferFrom(b.obj._messageHead)),
                     Len(b.val) - Len(BufferFrom(b.obj._networkHead))
                                - Len(BufferFrom(b.obj._messageHead)))

\* C7: in a constructed message, at construction and after any accessor calls,
\* the length fields of the stored and of the returned headers, and of the
\* headers inside the bytes buffer emits, all render the byte length of the
\* encoded body that buffer emits
C7_LengthConsistency ==
  msg # <<>> => EmittedBy(get_buffer(msg[1], clock))

\* buffer was called, after the clock moved, on a message whose body has a
\* two-byte character
C7_Witness ==
  /\ msg # <<>>
  /\ ret.acc = "buffer"
  /\ clock > 0
  /\ first["messageHead"] # <<>>
  /\ CJK \in Range(msg[1]._messageBody)
  /\ Len(gbkEncode(msg[1]._messageBody)) > Len(msg[1]._messageBody)

----------------------------------------------------------------------------
(* C8 *)

\* C8: every call of a derived-field accessor returns what the first call of
\* that accessor on the same message returned, however the clock has moved
C8_AccessorsIdempotent ==
  ret.acc # "none" => ret.val = first[ret.acc][1]

----------------------------------------------------------------------------
(* C9 *)

\* C9: padString returns exactly width characters: the string form itself when
\* it has that length, its trailing width characters when longer, otherwise
\* the string form after copies of the first character of the spacer ("0" when
\* the spacer is absent or empty); and the client log id the constructor
\* stores has exactly 20 characters
C9_PadStringWidth ==
  /\ padRet # <<>> =>
       LET str  == toString(padArgs.string)
           w    == padArgs.width
           fill == IF padArgs.spacer = <<>> THEN "0" ELSE padArgs.spacer[1]
           out  == padRet[1]
       IN  /\ Len(out) = w
           /\ Len(str) = w => out = str
           /\ Len(str) > w => \A i \in 1..w : out[i] = str[Len(str) - w + i]
           /\ Len(str) < w =>
                /\ \A i \in 1..(w - Len(str)) : out[i] = fill
                /\ \A i \in 1..Len(str) : out[w - Len(str) + i] = str[i]
  /\ msg # <<>> =>
       /\ Len(msg[1]._clientLogId) = 20
       /\ LET id == toString(input.clientLogId)
          IN  \A i \in 1..20 :
                msg[1]._clientLogId[i] =
                  IF i + Len(id) - 20 >= 1 THEN id[i + Len(id) - 20] ELSE "0"

\* a nine-digit number cut to its trailing eight digits, and a 25-character
\* log id stored as its trailing 20
C9_Witness ==
  /\ padRet = << <<"2", "3", "4", "5", "6", "7", "8", "9">> >>
  /\ padArgs.string = JSNum(123456789)
  /\ msg # <<>>
  /\ Len(toString(input.clientLogId)) = 25

----------------------------------------------------------------------------
(* C10 *)

\* C10: the caller's callback is invoked at most once per request, with the
\* pool's error and nothing written, or with a payload after the message
\* bytes were written
C10_CallbackOnce ==
  \A i \in 1..Len(reqs) :
    /\ Len(reqs[i].cb) <= 1
    /\ reqs[i].state = "failed" => reqs[i].written = <<>>
    /\ (reqs[i].cb # <<>> /\ reqs[i].state = "open") => reqs[i].written # <<>>

====
